---------------------------- MODULE Spec2Model ----------------------------
(***************************************************************************)
(* Model of the image-to-PDF pipeline of app.py: the request handler       *)
(* images_to_pdf (POST /api/images-to-pdf) and its helpers _auto_orient,   *)
(* _ensure_rgb, _compress_to_jpeg_bytes and _layout_a4_with_margins.       *)
(*                                                                         *)
(* One request is one behaviour: Init is the request as the framework      *)
(* hands it to the handler, each action is one stretch of the handler      *)
(* between two suspension points or loop iterations, and pc = "done" is    *)
(* the handler having returned its response.                               *)
(*                                                                         *)
(* Text is modelled as sequences of character codes, so that lower(),      *)
(* rsplit() and the ordering of strings are computed, not assumed.         *)
(* Points and pixels are exact rationals <<numerator, denominator>>.       *)
(***************************************************************************)
EXTENDS Integers, Sequences, FiniteSets, TLC

VARIABLES
    images,       \* the uploaded files, in the list the handler iterates
    order,        \* form field order
    per_file,     \* form field per_file
    style,        \* form field style
    compress,     \* form field compress
    outfile,      \* form field outfile
    pc,           \* where the handler is
    idx,          \* number of items the running loop has completed
    singles,      \* per-file mode: the (name, pdf) pairs made so far
    img_streams,  \* merged mode: the byte buffers retained so far
    response,     \* the response returned, NoResponse until then
    log,          \* what was done to which upload, in order (observation)
    handed,       \* the byte buffers given to img2pdf.convert (observation)
    geom_in,      \* the pixel size handed to the layout function
    geom,         \* the geometry it returned, NoGeom until then
    rgb_in,       \* the image handed to _ensure_rgb
    rgb_out       \* the image it returned, NoImage until then

vars == << images, order, per_file, style, compress, outfile, pc, idx,
           singles, img_streams, response, log, handed, geom_in, geom,
           rgb_in, rgb_out >>

-----------------------------------------------------------------------------
(* Bounds of the model.                                                    *)

\* longest batch whose items are enumerated freely
MaxBatch == 3
\* how far past MAX_IMAGES (and past 0) the batch sizes of the size check go
MaxOver == 2
\* largest pixel width and height handed to the layout function
MaxPx == 12

\* app.py:132
MAX_IMAGES == 300

-----------------------------------------------------------------------------
(* Text.                                                                   *)

Dot == 46

\* str.lower() on one character: 'A'..'Z' map to 'a'..'z'
LowerChar(c) == IF c >= 65 /\ c <= 90 THEN c + 32 ELSE c

\* str.lower()
Lower(s) == [k \in 1..Len(s) |-> LowerChar(s[k])]

\* Python's < on two strings: lexicographic by character code, a proper
\* prefix is smaller
RECURSIVE StrLess(_, _)
StrLess(a, b) ==
    IF b = << >> THEN FALSE
    ELSE IF a = << >> THEN TRUE
    ELSE IF Head(a) # Head(b) THEN Head(a) < Head(b)
    ELSE StrLess(Tail(a), Tail(b))

\* position of the last '.' of s, 0 when it has none
LastDot(s) ==
    LET dots == {k \in 1..Len(s) : s[k] = Dot}
    IN  IF dots = {} THEN 0 ELSE CHOOSE k \in dots : \A j \in dots : j <= k

\* s.rsplit(".", 1)[0]
RsplitDotHead(s) == IF LastDot(s) = 0 THEN s ELSE SubSeq(s, 1, LastDot(s) - 1)

\* the file names used by the requests of the model
Name_b_png  == << 98, 46, 112, 110, 103 >>
Name_a_png  == << 97, 46, 112, 110, 103 >>
Name_A_png  == << 65, 46, 112, 110, 103 >>
Name_C_png  == << 67, 46, 112, 110, 103 >>
Name_ab     == << 97, 98 >>
Name_a_b_jpg == << 97, 46, 98, 46, 106, 112, 103 >>
\* a missing file name: None and "" are both falsy, `or` treats them alike
NoName      == << >>
\* "image" and ".pdf"
Str_image   == << 105, 109, 97, 103, 101 >>
Str_pdf     == << 46, 112, 100, 102 >>
\* "images.pdf", "out", "X.PDF"
Str_images_pdf == << 105, 109, 97, 103, 101, 115, 46, 112, 100, 102 >>
Str_out     == << 111, 117, 116 >>
Str_X_PDF   == << 88, 46, 80, 68, 70 >>

FileNames == { Name_b_png, Name_a_png, Name_A_png, Name_C_png, Name_ab,
               Name_a_b_jpg, NoName }


-----------------------------------------------------------------------------
(* Uploads and images.                                                     *)
(*                                                                         *)
(* An upload is [id, filename, content_type, payload]: id is its arrival   *)
(* position (observation only), content_type is <<major, minor>> as the    *)
(* client declared it (<< >> when absent), payload describes the bytes:    *)
(* [decodable, format, mode, orient], orient being the EXIF orientation    *)
(* code, 0 when the file carries no EXIF and -1 when reading it raises.    *)

Formats == { "JPEG", "PNG", "TIFF" }

Modes == { "1", "L", "LA", "P", "RGB", "RGBA", "CMYK", "I", "F" }

\* the colour modes the decoder produces for each container format
ModesOf(fmt) ==
    CASE fmt = "JPEG" -> { "L", "RGB", "CMYK" }
      [] fmt = "PNG"  -> { "1", "L", "LA", "P", "RGB", "RGBA", "I" }
      [] fmt = "TIFF" -> { "RGB", "CMYK", "F" }

Orients == { -1, 0, 1, 3, 6, 8 }

\* number of colour channels (bands) of a mode
Channels(mode) ==
    CASE mode \in { "1", "L", "P", "I", "F" } -> 1
      [] mode = "LA"                          -> 2
      [] mode = "RGB"                         -> 3
      [] mode \in { "RGBA", "CMYK" }          -> 4

ContentTypes == { << "image", "png" >>, << "image", "jpeg" >>,
                  << "text", "plain" >>, << >> }

\* (f.content_type or "").startswith("image/")
IsImageType(ct) == ct # << >> /\ ct[1] = "image"

\* `data = await f.read()`: the uploaded bytes, untouched
RawBytes(f) ==
    [ src |-> f.id, raw |-> TRUE, format |-> f.payload.format,
      mode |-> f.payload.mode, exif |-> f.payload.orient, rot |-> 0 ]

\* Image.open(BytesIO(data)) on decodable bytes; format is the container's
OpenImage(f) ==
    [ src |-> f.id, format |-> f.payload.format, mode |-> f.payload.mode,
      exif |-> f.payload.orient, rot |-> 0 ]

\* img.rotate(deg, expand=True): a new image; an image made by the library
\* (not loaded from a file) has format None
Rotate(img, deg) == [ img EXCEPT !.format = "None", !.rot = deg ]

\* _auto_orient: codes 3, 6, 8 rotate; no EXIF, an unreadable EXIF (the
\* except branch) and every other code leave the image as it is
_auto_orient(img) ==
    IF img.exif = -1 \/ img.exif = 0 THEN img
    ELSE IF img.exif = 3 THEN Rotate(img, 180)
    ELSE IF img.exif = 6 THEN Rotate(img, 270)
    ELSE IF img.exif = 8 THEN Rotate(img, 90)
    ELSE img

\* img.convert("RGB"): a new image of mode RGB
ConvertRGB(img) == [ img EXCEPT !.format = "None", !.mode = "RGB" ]

\* _ensure_rgb
_ensure_rgb(img) ==
    IF img.mode \in { "RGBA", "LA", "P" } THEN ConvertRGB(img)
    ELSE IF img.mode = "L" THEN ConvertRGB(img)
    ELSE img

\* the modes img.save(format="JPEG") can write; any other raises
JpegWritable == { "1", "L", "RGB", "CMYK" }

\* _compress_to_jpeg_bytes: [ok, bytes]; ok = FALSE when save raises.
\* The bytes written carry no EXIF; a bilevel image is written as greyscale.
_compress_to_jpeg_bytes(img) ==
    LET rgb == _ensure_rgb(img)
    IN  [ ok |-> rgb.mode \in JpegWritable,
          bytes |-> [ src |-> rgb.src, raw |-> FALSE, format |-> "JPEG",
                      mode |-> IF rgb.mode = "1" THEN "L" ELSE rgb.mode,
                      exif |-> 0, rot |-> rgb.rot ] ]

\* the recompression branch as it would be if the flag decided for JPEGs
ChooseBytesFlagHonoured(img, data, comp) ==
    IF comp = "1" THEN _compress_to_jpeg_bytes(img)
    ELSE IF img.format = "JPEG" THEN [ ok |-> TRUE, bytes |-> data ]
    ELSE _compress_to_jpeg_bytes(img)

\* the recompression branch of the item loops:
\*   if compress == "1" and format != "JPEG": _compress_to_jpeg_bytes(img)
\*   else: data if format == "JPEG" else _compress_to_jpeg_bytes(img)
ChooseBytes(img, data, comp) ==
    IF comp = "1" /\ img.format # "JPEG" THEN _compress_to_jpeg_bytes(img)
    ELSE IF img.format = "JPEG" THEN [ ok |-> TRUE, bytes |-> data ]
    ELSE _compress_to_jpeg_bytes(img)

\* read, open, orient and encode one upload: [ok, bytes]; ok = FALSE when
\* Image.open or the encoder raises
ProcessItem(f, comp) ==
    IF ~f.payload.decodable
    THEN [ ok |-> FALSE, bytes |-> RawBytes(f) ]
    ELSE ChooseBytes(_auto_orient(OpenImage(f)), RawBytes(f), comp)

\* what ProcessItem did to upload f, for the log
ItemLog(f, comp) ==
    << [ op |-> "read", id |-> f.id ] >>
    \o (IF f.payload.decodable THEN << [ op |-> "decode", id |-> f.id ] >> ELSE << >>)
    \o (IF ProcessItem(f, comp).ok /\ ~ProcessItem(f, comp).bytes.raw
        THEN << [ op |-> "encode", id |-> f.id ] >> ELSE << >>)

-----------------------------------------------------------------------------
(* Ordering of the batch.                                                  *)

\* the sort key without its lower(): a case-sensitive sort
NameKeyCaseSensitive(f) == f.filename

\* the sort key of order == "name": (f.filename or "").lower()
NameKey(f) == Lower(f.filename)

\* one insertion of a stable ascending sort: element k goes after every
\* element already placed whose key is not greater than its own
InsertByKey(placed, k, keys) ==
    LET p == Cardinality({ j \in 1..Len(placed) :
                             ~StrLess(keys[k], keys[placed[j]]) })
    IN  SubSeq(placed, 1, p) \o << k >> \o SubSeq(placed, p + 1, Len(placed))

\* elements lo..hi inserted one after the other, in that order, into placed
\* (the range is halved, and the first half's length looked at before the
\* second half is begun, only to keep the evaluation shallow; the ELSE
\* branch is never taken, an insertion adds exactly one element)
RECURSIVE InsertRange(_, _, _, _)
InsertRange(placed, lo, hi, keys) ==
    IF lo > hi THEN placed
    ELSE IF lo = hi THEN InsertByKey(placed, lo, keys)
    ELSE LET mid == (lo + hi) \div 2
             first == InsertRange(placed, lo, mid, keys)
         IN  IF Len(first) = Len(placed) + (mid - lo + 1)
             THEN InsertRange(first, mid + 1, hi, keys)
             ELSE << >>

\* list.sort(key=...) given the keys of the elements, as the permutation of
\* positions it produces: a stable ascending sort
SortedIdx(keys) == InsertRange(<< >>, 1, Len(keys), keys)

\* lst.sort(key=...) with the given keys
SortByKeys(lst, keys) ==
    LET perm == SortedIdx(keys)
    IN  [ k \in 1..Len(lst) |-> lst[perm[k]] ]

\* images.sort(key=lambda f: (f.filename or "").lower())
SortByName(lst) == SortByKeys(lst, [ k \in 1..Len(lst) |-> NameKey(lst[k]) ])

\* the clock readings time.time() can return for the keys of order ==
\* "mtime": an UploadFile has no attribute "spooled", so every key is the
\* wall clock at the moment the key is computed, and the wall clock is not
\* monotonic
ClockReadings(n) == [ 1..n -> { << 0 >>, << 1 >> } ]

-----------------------------------------------------------------------------
(* Responses.                                                              *)

NoResponse == [ status |-> 0, media |-> "none", error |-> "none",
                named |-> << >>, body |-> << >>, filename |-> << >> ]

\* JSONResponse({"error": msg(key, lang, name=...)}, status_code=status);
\* named holds the file name the message text carries, if its template and
\* its arguments carry one
JsonError(status, key, named) ==
    [ status |-> status, media |-> "application/json", error |-> key,
      named |-> named, body |-> << >>, filename |-> << >> ]

\* img2pdf.convert(streams[, layout_fun=layout_fun]) when it succeeds: one
\* page per stream, in the order given. layout_fun is the A4 layout only
\* for style == "a4_margins"
PdfOf(streams, st) ==
    [ pages |-> streams,
      layout |-> IF st = "a4_margins" THEN "a4_margins" ELSE "default" ]

\* s.endswith(t)
EndsWith(s, t) ==
    Len(s) >= Len(t) /\ SubSeq(s, Len(s) - Len(t) + 1, Len(s)) = t

\* if not outfile.lower().endswith(".pdf"): outfile += ".pdf"
OutName(name) == IF EndsWith(Lower(name), Str_pdf) THEN name ELSE name \o Str_pdf

\* the archive name cut at the first '.' instead of the last
ArchiveNameFirstDot(f) ==
    LET s == IF f.filename = NoName THEN Str_image ELSE f.filename
        dots == { k \in 1..Len(s) : s[k] = Dot }
        first == IF dots = {} THEN Len(s) + 1
                 ELSE CHOOSE k \in dots : \A j \in dots : k <= j
    IN  SubSeq(s, 1, first - 1) \o Str_pdf

\* (f.filename or "image").rsplit(".", 1)[0] + ".pdf"
ArchiveName(f) ==
    RsplitDotHead(IF f.filename = NoName THEN Str_image ELSE f.filename) \o Str_pdf

\* the size check with its comparison off by one
TooManyOffByOne(lst) == Len(lst) >= MAX_IMAGES

\* len(images) > MAX_IMAGES
TooMany(lst) == Len(lst) > MAX_IMAGES

-----------------------------------------------------------------------------
(* The handler images_to_pdf.                                              *)

Respond(r) == response' = r /\ pc' = "done"

\* lines 303-309: the two size checks
ValidateSize ==
    /\ pc = "start"
    /\ IF images = << >>
       THEN Respond(JsonError(400, "no_images", << >>))
       ELSE IF TooMany(images)
       THEN Respond(JsonError(400, "too_many_images", << >>))
       ELSE pc' = "order" /\ response' = response
    /\ UNCHANGED << images, order, per_file, style, compress, outfile, idx,
                    singles, img_streams, log, handed, geom_in, geom, rgb_in,
                    rgb_out >>

\* lines 311-320: the batch is put in the requested order, the
\* accumulators are created and the mode is chosen
ResolveOrder ==
    /\ pc = "order"
    /\ IF order = "name"
       THEN images' = SortByName(images)
       ELSE IF order = "mtime"
       THEN \E keys \in ClockReadings(Len(images)) :
                images' = SortByKeys(images, keys)
       ELSE images' = images
    /\ singles' = << >>
    /\ img_streams' = << >>
    /\ idx' = 0
    /\ pc' = IF per_file = "1" THEN "per_file" ELSE "merged"
    /\ UNCHANGED << order, per_file, style, compress, outfile, response, log,
                    handed, geom_in, geom, rgb_in, rgb_out >>

\* the per-file loop as it would be if it went on past an item that fails:
\* the item is left out and the loop takes the next one
PerFileItemContinue ==
    /\ pc = "per_file"
    /\ idx < Len(images)
    /\ LET f == images[idx + 1]
           r == ProcessItem(f, compress)
       IN  IF ~IsImageType(f.content_type)
           THEN UNCHANGED << singles, log, handed >>
           ELSE IF ~r.ok
           THEN /\ log' = log \o ItemLog(f, compress)
                /\ UNCHANGED << singles, handed >>
           ELSE \E convert_ok \in BOOLEAN :
                  /\ log' = log \o ItemLog(f, compress)
                              \o << [ op |-> "convert", id |-> f.id ] >>
                  /\ handed' = Append(handed, r.bytes)
                  /\ singles' = IF convert_ok
                                THEN Append(singles,
                                       [ name |-> ArchiveName(f),
                                         pdf |-> PdfOf(<< r.bytes >>, style) ])
                                ELSE singles
    /\ idx' = idx + 1
    /\ UNCHANGED << images, order, per_file, style, compress, outfile, pc,
                    response, img_streams, geom_in, geom, rgb_in, rgb_out >>

\* lines 321-346: one iteration of the per-file loop
PerFileItem ==
    /\ pc = "per_file"
    /\ idx < Len(images)
    /\ LET f == images[idx + 1]
           r == ProcessItem(f, compress)
       IN  IF ~IsImageType(f.content_type)
           THEN /\ Respond(JsonError(400, "not_image", << f.filename >>))
                /\ UNCHANGED << idx, singles, log, handed >>
           ELSE IF ~r.ok
           THEN /\ Respond(JsonError(400, "image_process_failed", << f.filename >>))
                /\ log' = log \o ItemLog(f, compress)
                /\ UNCHANGED << idx, singles, handed >>
           ELSE \E convert_ok \in BOOLEAN :
                  /\ log' = log \o ItemLog(f, compress)
                              \o << [ op |-> "convert", id |-> f.id ] >>
                  /\ handed' = Append(handed, r.bytes)
                  /\ IF convert_ok
                     THEN /\ singles' = Append(singles,
                                 [ name |-> ArchiveName(f),
                                   pdf |-> PdfOf(<< r.bytes >>, style) ])
                          /\ idx' = idx + 1
                          /\ UNCHANGED << pc, response >>
                     ELSE /\ Respond(JsonError(400, "image_process_failed",
                                               << f.filename >>))
                          /\ UNCHANGED << idx, singles >>
    /\ UNCHANGED << images, order, per_file, style, compress, outfile,
                    img_streams, geom_in, geom, rgb_in, rgb_out >>

\* lines 348-357: every (name, blob) pair is written to the archive, which
\* is returned
PerFileZip ==
    /\ pc = "per_file"
    /\ idx = Len(images)
    /\ Respond([ status |-> 200, media |-> "application/zip", error |-> "none",
                 named |-> << >>, body |-> singles,
                 filename |-> << >> ])
    /\ UNCHANGED << images, order, per_file, style, compress, outfile, idx,
                    singles, img_streams, log, handed, geom_in, geom, rgb_in,
                    rgb_out >>

\* lines 361-374 and 382-386: one iteration of the merged loop; whatever
\* raises inside it is caught by the handler-wide except
MergedItem ==
    /\ pc = "merged"
    /\ idx < Len(images)
    /\ LET f == images[idx + 1]
           r == ProcessItem(f, compress)
       IN  IF ~IsImageType(f.content_type)
           THEN /\ Respond(JsonError(400, "not_image", << f.filename >>))
                /\ UNCHANGED << idx, img_streams, log >>
           ELSE IF ~r.ok
           THEN /\ Respond(JsonError(500, "pdf_creation_failed", << >>))
                /\ log' = log \o ItemLog(f, compress)
                /\ UNCHANGED << idx, img_streams >>
           ELSE /\ img_streams' = Append(img_streams, r.bytes)
                /\ log' = log \o ItemLog(f, compress)
                /\ idx' = idx + 1
                /\ UNCHANGED << pc, response >>
    /\ UNCHANGED << images, order, per_file, style, compress, outfile,
                    singles, handed, geom_in, geom, rgb_in, rgb_out >>

\* lines 376-396: the retained buffers are composited into one document,
\* which is returned under the (extension-enforced) outfile name
MergedConvert ==
    /\ pc = "merged"
    /\ idx = Len(images)
    /\ \E convert_ok \in BOOLEAN :
         IF convert_ok
         THEN /\ Respond([ status |-> 200, media |-> "application/pdf",
                           error |-> "none", named |-> << >>,
                           body |-> << PdfOf(img_streams, style) >>,
                           filename |-> OutName(outfile) ])
              /\ outfile' = OutName(outfile)
         ELSE /\ Respond(JsonError(500, "pdf_creation_failed", << >>))
              /\ outfile' = outfile
    /\ log' = Append(log, [ op |-> "convert", id |-> 0 ])
    /\ handed' = img_streams
    /\ UNCHANGED << images, order, per_file, style, compress, idx,
                    singles, img_streams, geom_in, geom, rgb_in, rgb_out >>

-----------------------------------------------------------------------------
(* Exact rational arithmetic: << n, d >> with d > 0, in lowest terms.      *)
(* The code computes in binary floating point; the model computes the      *)
(* exact values those floats approximate.                                  *)

Abs(n) == IF n < 0 THEN -n ELSE n

RECURSIVE Gcd(_, _)
Gcd(a, b) == IF b = 0 THEN a ELSE Gcd(b, a % b)

Rat(n, d) ==
    LET g == Gcd(Abs(n), Abs(d))
        sgn == IF d < 0 THEN -1 ELSE 1
    IN  << sgn * (n \div g), sgn * (d \div g) >>

RSub(a, b) ==
    LET g == Gcd(a[2], b[2])
    IN  Rat(a[1] * (b[2] \div g) - b[1] * (a[2] \div g), (a[2] \div g) * b[2])

RAdd(a, b) == RSub(a, << -b[1], b[2] >>)

RMul(a, b) ==
    LET x == Rat(a[1], b[2])
        y == Rat(b[1], a[2])
    IN  << x[1] * y[1], x[2] * y[2] >>

RDiv(a, b) == RMul(a, Rat(b[2], b[1]))

RLess(a, b) ==
    LET g == Gcd(a[2], b[2])
    IN  a[1] * (b[2] \div g) < b[1] * (a[2] \div g)

RLeq(a, b) == ~RLess(b, a)

-----------------------------------------------------------------------------
(* The A4 layout function.                                                 *)

\* the margin the handler asks for: _layout_a4_with_margins(8.0)
MarginMm == 8
\* the A4 page, in millimetres
A4WidthMm == 210
A4HeightMm == 297

\* img2pdf.mm_to_pt(length) = (72.0 * length) / 25.4
mm_to_pt(mm) == Rat(720 * mm, 254)

\* the comparison of the two aspects the wrong way round
WidthLimitedFlipped(img_aspect, box_aspect) == RLess(img_aspect, box_aspect)

\* which side of the box limits the content: img_aspect > box_aspect
WidthLimited(img_aspect, box_aspect) == RLess(box_aspect, img_aspect)

\* _layout_a4_with_margins(margin_mm)(imgwidthpx, imgheightpx, ndpi, metadata)
_layout_a4_with_margins(margin_mm, imgwidthpx, imgheightpx) ==
    LET page_width == mm_to_pt(A4WidthMm)
        page_height == mm_to_pt(A4HeightMm)
        margin == mm_to_pt(margin_mm)
        box_w == RSub(RSub(page_width, margin), margin)
        box_h == RSub(RSub(page_height, margin), margin)
        img_aspect == Rat(imgwidthpx, imgheightpx)
        box_aspect == RDiv(box_w, box_h)
        wide == WidthLimited(img_aspect, box_aspect)
        w == IF wide THEN box_w ELSE RMul(box_h, img_aspect)
        h == IF wide THEN RDiv(box_w, img_aspect) ELSE box_h
        x == RDiv(RSub(page_width, w), << 2, 1 >>)
        y == RDiv(RSub(page_height, h), << 2, 1 >>)
    IN  [ page_width |-> page_width, page_height |-> page_height,
          x |-> x, y |-> y, w |-> w, h |-> h ]

NoGeom == [ page_width |-> << 0, 1 >>, page_height |-> << 0, 1 >>,
            x |-> << 0, 1 >>, y |-> << 0, 1 >>, w |-> << 0, 1 >>,
            h |-> << 0, 1 >> ]

NoImage == [ src |-> 0, format |-> "None", mode |-> "none", exif |-> 0,
             rot |-> 0 ]

\* the compositing library calls layout_fun with the pixel size of a page
ApplyLayout ==
    /\ pc = "layout"
    /\ geom' = _layout_a4_with_margins(MarginMm, geom_in[1], geom_in[2])
    /\ pc' = "laid"
    /\ UNCHANGED << images, order, per_file, style, compress, outfile, idx,
                    singles, img_streams, response, log, handed, geom_in,
                    rgb_in, rgb_out >>

\* _compress_to_jpeg_bytes hands its image to _ensure_rgb
ApplyEnsureRgb ==
    /\ pc = "rgb"
    /\ rgb_out' = _ensure_rgb(rgb_in)
    /\ pc' = "rgb_done"
    /\ UNCHANGED << images, order, per_file, style, compress, outfile, idx,
                    singles, img_streams, response, log, handed, geom_in,
                    geom, rgb_in >>

-----------------------------------------------------------------------------
(* The requests of the model.                                              *)

Upload(id, filename, content_type, payload) ==
    [ id |-> id, filename |-> filename, content_type |-> content_type,
      payload |-> payload ]

Payload(decodable, format, mode, orient) ==
    [ decodable |-> decodable, format |-> format, mode |-> mode,
      orient |-> orient ]

OkPng == Payload(TRUE, "PNG", "RGBA", 0)
OkJpeg == Payload(TRUE, "JPEG", "RGB", 0)
Corrupt == Payload(FALSE, "PNG", "RGB", 0)

\* every payload the decoder opens
Payloads ==
    { Payload(TRUE, fmt, mode, orient) :
        fmt \in Formats, mode \in Modes, orient \in Orients }
    \cap { pl \in [ decodable : { TRUE }, format : Formats, mode : Modes,
                    orient : Orients ] : pl.mode \in ModesOf(pl.format) }

Unset == "None"

\* what every request starts from
Fresh ==
    /\ pc = "start"
    /\ idx = 0
    /\ singles = << >>
    /\ img_streams = << >>
    /\ response = NoResponse
    /\ log = << >>
    /\ handed = << >>
    /\ geom_in = << 0, 0 >>
    /\ geom = NoGeom
    /\ rgb_in = NoImage
    /\ rgb_out = NoImage

\* batches of valid images under every choice of file names
InitNames ==
    /\ \E n \in 1..MaxBatch : \E names \in [ 1..n -> FileNames ] :
         images = [ k \in 1..n |->
                      Upload(k, names[k], << "image", "png" >>, OkPng) ]
    /\ order \in { "name", "mtime", "as_is" }
    /\ per_file \in { Unset, "1" }
    /\ style = "full_bleed"
    /\ compress = Unset
    /\ outfile = Str_images_pdf

\* the name of the upload that arrives k-th in the batches of InitFaults
ArrivalNames == << Name_b_png, Name_a_png, Name_C_png, Name_a_b_jpg, Name_ab >>
ArrivalName(k) == ArrivalNames[((k - 1) % Len(ArrivalNames)) + 1]

\* batches whose items may be mis-declared or undecodable
InitFaults ==
    /\ \E n \in 1..MaxBatch :
         \E cts \in [ 1..n -> { << "image", "png" >>, << "text", "plain" >>, << >> } ] :
           \E pls \in [ 1..n -> { OkPng, OkJpeg, Corrupt } ] :
             images = [ k \in 1..n |-> Upload(k, ArrivalName(k), cts[k], pls[k]) ]
    /\ order \in { "name", "as_is" }
    /\ per_file \in { Unset, "1" }
    /\ style = "full_bleed"
    /\ compress = Unset
    /\ outfile = Str_images_pdf

\* one image of every format, colour mode and orientation, under every
\* choice of the form fields
InitImage ==
    /\ \E pl \in Payloads \cup { Corrupt } :
         images = << Upload(1, Name_b_png, << "image", "jpeg" >>, pl) >>
    /\ order = "as_is"
    /\ per_file \in { Unset, "1" }
    /\ style \in { "full_bleed", "a4_margins" }
    /\ compress \in { Unset, "1" }
    /\ outfile \in { Str_images_pdf, Str_out, Str_X_PDF }

\* the batch sizes around the two size limits
SizeCounts == (0..MaxOver) \cup ((MAX_IMAGES - MaxOver)..(MAX_IMAGES + MaxOver))

\* batches of every size in SizeCounts
InitSize ==
    /\ \E n \in SizeCounts :
         images = [ k \in 1..n |->
                      Upload(k, Name_b_png, << "image", "jpeg" >>, OkJpeg) ]
    /\ order \in { "name", "as_is" }
    /\ per_file \in { Unset, "1" }
    /\ style = "full_bleed"
    /\ compress = Unset
    /\ outfile = Str_images_pdf

Init == Fresh /\ (InitNames \/ InitFaults \/ InitImage \/ InitSize)

Next ==
    \/ ValidateSize
    \/ ResolveOrder
    \/ PerFileItem
    \/ PerFileZip
    \/ MergedItem
    \/ MergedConvert

Spec == Init /\ [][Next]_vars

\* the layout function on every pixel size of the model
PixelSizes == (1..MaxPx) \cup { 194, 281 }

InitLayout ==
    /\ pc = "layout"
    /\ geom_in \in PixelSizes \X PixelSizes
    /\ geom = NoGeom
    /\ rgb_in = NoImage
    /\ rgb_out = NoImage
    /\ images = << >>
    /\ order = "as_is"
    /\ per_file = Unset
    /\ style = "a4_margins"
    /\ compress = Unset
    /\ outfile = Str_images_pdf
    /\ idx = 0
    /\ singles = << >>
    /\ img_streams = << >>
    /\ response = NoResponse
    /\ log = << >>
    /\ handed = << >>

NextLayout == ApplyLayout

SpecLayout == InitLayout /\ [][NextLayout]_vars

\* _ensure_rgb on every image the decoder and _auto_orient can hand it
InitRgb ==
    /\ pc = "rgb"
    /\ \E pl \in Payloads :
         rgb_in = _auto_orient(OpenImage(Upload(1, Name_b_png, << "image", "png" >>, pl)))
    /\ rgb_out = NoImage
    /\ geom_in = << 0, 0 >>
    /\ geom = NoGeom
    /\ images = << >>
    /\ order = "as_is"
    /\ per_file = Unset
    /\ style = "full_bleed"
    /\ compress = Unset
    /\ outfile = Str_images_pdf
    /\ idx = 0
    /\ singles = << >>
    /\ img_streams = << >>
    /\ response = NoResponse
    /\ log = << >>
    /\ handed = << >>

NextRgb == ApplyEnsureRgb

SpecRgb == InitRgb /\ [][NextRgb]_vars

-----------------------------------------------------------------------------
(* Properties of the handler.                                              *)

Done == pc = "done"

\* the batch passed the two size checks
SizeOk == Len(images) >= 1 /\ Len(images) <= 300

\* positions of the batch whose declared media type is not an image type
NonImages == { k \in 1..Len(images) : ~IsImageType(images[k].content_type) }

\* the uploads read so far, in the order they were read
IsRead(e) == e.op = "read"
ReadIds(l) ==
    LET reads == SelectSeq(l, IsRead)
    IN  [ k \in 1..Len(reads) |-> reads[k].id ]

\* the uploads that were read and whose decoding or encoding raised
FailedItems ==
    { k \in 1..Len(images) :
        /\ \E j \in 1..Len(log) : log[j].op = "read" /\ log[j].id = images[k].id
        /\ ~ProcessItem(images[k], compress).ok }

\* the last thing the handler did was a call of img2pdf.convert that raised
ConvertFailed ==
    /\ Done
    /\ log # << >>
    /\ log[Len(log)].op = "convert"
    /\ response.status # 200

\* C1: a batch that passes the size checks and holds an item whose declared
\* media type is not an image type is answered with the 400 not_image
\* error, and nothing of the batch was read, decoded or encoded before.
C1_NonImageRejectsUntouched ==
    (Done /\ SizeOk /\ NonImages # {})
        => /\ response.status = 400
           /\ response.error = "not_image"
           /\ log = << >>

\* C2: in merged mode, when an item fails to decode or encode, the answer
\* is a 400 error whose message names that item's file, and no PDF.
C2_MergedItemFailureIs400Named ==
    (Done /\ per_file # "1" /\ FailedItems # {})
        => /\ response.status = 400
           /\ \E k \in FailedItems : response.named = << images[k].filename >>
           /\ response.media # "application/pdf"

\* C3: a failure of img2pdf.convert is answered with 500 and the
\* pdf_creation_failed message, in merged and in per-file mode.
C3_ConvertFailureIs500 ==
    ConvertFailed
        => /\ response.status = 500
           /\ response.error = "pdf_creation_failed"

\* C4: the size checks look at the number of items only and come before any
\* read: 0 items give 400 no_images, 301 or more give 400 too_many_images,
\* both with nothing read, and 1 to 300 items give neither error.
C4_SizeValidation ==
    pc # "start"
        => /\ Len(images) = 0
                => /\ Done /\ response.status = 400
                   /\ response.error = "no_images" /\ log = << >>
           /\ Len(images) >= 301
                => /\ Done /\ response.status = 400
                   /\ response.error = "too_many_images" /\ log = << >>
           /\ SizeOk => response.error \notin { "no_images", "too_many_images" }
           /\ (pc = "order" \/ log # << >>) => SizeOk

\* a batch of exactly 300 items went through and its document was returned
C4_Witness300Accepted ==
    /\ Done
    /\ Len(images) = 300
    /\ response.status = 200
    /\ Len(ReadIds(log)) = 300

\* the arrival positions of the uploads behind the pages of the returned
\* document, or behind the entries of the returned archive, in their order
EmittedIds ==
    IF response.media = "application/pdf"
    THEN [ k \in 1..Len(response.body[1].pages) |->
             response.body[1].pages[k].src ]
    ELSE IF response.media = "application/zip"
    THEN [ k \in 1..Len(response.body) |-> response.body[k].pdf.pages[1].src ]
    ELSE << >>

\* C5: whenever a document or an archive is returned, its pages / entries
\* are the uploads, each once, in the order in which the handler read them,
\* which is the order of the resolved batch; under order=as_is that is the
\* arrival order, under order=name it is ascending in the lowercased file
\* name with uploads of equal lowercased names in arrival order.
C5_EmittedInResolvedOrder ==
    response.status = 200
        => LET e == EmittedIds
               n == Len(images)
           IN  /\ Len(e) = n
               /\ \A k \in 1..n : e[k] = images[k].id
               /\ { e[k] : k \in 1..n } = 1..n
               /\ e = ReadIds(log)
               /\ order = "as_is" => \A k \in 1..n : e[k] = k
               /\ order = "name" =>
                    \A i \in 1..n : \A j \in (i + 1)..n :
                       LET a == Lower(images[i].filename)
                           b == Lower(images[j].filename)
                       IN  /\ ~StrLess(b, a)
                           /\ a = b => e[i] < e[j]

\* b.png, a.png, A.png uploaded in that order come out as a.png, A.png, b.png
C5_WitnessReordered ==
    /\ response.status = 200
    /\ order = "name"
    /\ EmittedIds = << 2, 3, 1 >>
    /\ images[1].filename = Name_a_png
    /\ images[2].filename = Name_A_png
    /\ images[3].filename = Name_b_png

\* C6: every buffer handed to img2pdf.convert is the re-encoded output of
\* the normalizers, never the uploaded bytes: it has 3 colour channels and
\* no rotation is left to apply.
C6_ConvertGetsNormalizedRgb ==
    \A k \in 1..Len(handed) :
        /\ ~handed[k].raw
        /\ Channels(handed[k].mode) = 3
        /\ handed[k].exif \notin { 3, 6, 8 }

IsStemOf(stem, name) ==
    IF \A p \in 1..Len(name) : name[p] # 46
    THEN stem = name
    ELSE \E p \in 1..Len(name) :
           /\ name[p] = 46
           /\ \A q \in (p + 1)..Len(name) : name[q] # 46
           /\ stem = SubSeq(name, 1, p - 1)

\* "image.pdf"
Str_image_pdf == << 105, 109, 97, 103, 101, 46, 112, 100, 102 >>

\* C8: a returned archive has one entry per upload, in the resolved order,
\* each a one-page document of that upload named by the upload's file name
\* with its last extension replaced by ".pdf" ("image.pdf" without a file
\* name); entries of equal names are all there.
C8_ArchiveEntries ==
    response.media = "application/zip"
        => /\ Len(response.body) = Len(images)
           /\ \A k \in 1..Len(images) :
                LET f == images[k]
                    ent == response.body[k]
                IN  /\ Len(ent.pdf.pages) = 1
                    /\ ent.pdf.pages[1].src = f.id
                    /\ Len(ent.name) >= 4
                    /\ SubSeq(ent.name, Len(ent.name) - 3, Len(ent.name))
                         = << 46, 112, 100, 102 >>
                    /\ IF f.filename = << >>
                       THEN ent.name = Str_image_pdf
                       ELSE IsStemOf(SubSeq(ent.name, 1, Len(ent.name) - 4),
                                     f.filename)

\* an archive of three entries, two of them of the same name, one of them of
\* an upload without a file name
C8_WitnessCollision ==
    /\ response.media = "application/zip"
    /\ Len(response.body) = 3
    /\ \E i, j \in 1..3 : i # j /\ response.body[i].name = response.body[j].name
    /\ \E k \in 1..3 : images[k].filename = NoName
    /\ \E k \in 1..3 : images[k].filename = Name_a_b_jpg

-----------------------------------------------------------------------------
(* Properties of the layout function and of the colour-space normalizer.   *)

\* the A4 page, the 8 mm margin and the box they leave, in points
\* (1 mm = 360/127 pt)
PageW == << 75600, 127 >>
PageH == << 106920, 127 >>
Margin == << 2880, 127 >>
BoxW == << 69840, 127 >>
BoxH == << 101160, 127 >>
Zero == << 0, 1 >>

C10_EnsureRgbAlwaysRgb ==
    pc = "rgb_done"
        => /\ rgb_out.mode = "RGB"
           /\ Channels(rgb_out.mode) = 3
           /\ rgb_in.mode = "RGB" => rgb_out = rgb_in

-----------------------------------------------------------------------------
(* Fail-fast in per-file mode.                                             *)

\* upload k of the resolved batch is declared an image and decodes and
\* encodes
ItemGood(k) ==
    /\ IsImageType(images[k].content_type)
    /\ ProcessItem(images[k], compress).ok

\* the arrival positions of the first m uploads of the resolved batch
FirstIds(m) == [ k \in 1..m |-> images[k].id ]

\* C11: in per-file mode the loop stops at the first item of the resolved
\* batch that fails: every item before it succeeded and has its document,
\* the answer is a 400 error naming that item, no later item was read, and
\* an archive is returned only when every item succeeded, with one entry
\* per item.
C11_PerFileFailFast ==
    (per_file = "1" /\ pc \in { "per_file", "done" } /\ SizeOk)
        => LET n == Len(images)
               zip == response.media = "application/zip"
           IN  /\ idx <= n
               /\ Len(singles) = idx
               /\ \A k \in 1..idx :
                    ItemGood(k) /\ singles[k].pdf.pages[1].src = images[k].id
               /\ ~Done => ReadIds(log) = FirstIds(idx)
               /\ zip => /\ idx = n
                         /\ response.body = singles
                         /\ ReadIds(log) = FirstIds(n)
               /\ (Done /\ ~zip)
                    => /\ idx < n
                       /\ response.status = 400
                       /\ response.named = << images[idx + 1].filename >>
                       /\ IF ~IsImageType(images[idx + 1].content_type)
                          THEN /\ response.error = "not_image"
                               /\ ReadIds(log) = FirstIds(idx)
                          ELSE /\ response.error = "image_process_failed"
                               /\ ReadIds(log) = FirstIds(idx + 1)
                               /\ \/ ~ProcessItem(images[idx + 1], compress).ok
                                  \/ log[Len(log)] =
                                       [ op |-> "convert",
                                         id |-> images[idx + 1].id ]

\* a batch of three whose second item (in resolved order) is undecodable:
\* the first was processed, the error names the second, and the third, a
\* valid image, was never read
C11_WitnessStopsAtSecond ==
    /\ per_file = "1"
    /\ Done
    /\ Len(images) = 3
    /\ idx = 1
    /\ ItemGood(1) /\ ItemGood(3)
    /\ ~images[2].payload.decodable
    /\ response.status = 400
    /\ response.named = << images[2].filename >>
    /\ ReadIds(log) = << images[1].id, images[2].id >>

=============================================================================
